---- MODULE Spec2Model ----
(***************************************************************************)
(* gdal_type_traits.hpp: the template hierarchy that maps a C++ type to a  *)
(* GDALDataType.  A type is described by what the templates look at: its   *)
(* classification (std::is_integral, std::is_floating_point,               *)
(* std::is_enum), sizeof, std::is_signed and, for an enumeration, its      *)
(* std::underlying_type.  Each template is an operator; an instantiation   *)
(* (of gdaltypetraits::Convert<T>, or of internal::BuiltInToGDAL with      *)
(* explicit flags) is an action that records the members it defines.       *)
(***************************************************************************)
EXTENDS Integers, FiniteSets

\* The widest arithmetic type modelled has 2^MaxSizeLog2 bytes.
MaxSizeLog2 == 4

\* sizeof of the integral types (char .. __int128); CHAR_BIT is 8.
IntegralSizes == { 2^k : k \in 0..MaxSizeLog2 }

\* sizeof of the floating-point types (_Float16 .. long double).
FloatSizes == IntegralSizes \ {1}

\* sizeof of class, pointer, array and other types.
OtherSizes == 1..(2^MaxSizeLog2)

\* The codes of GDALDataType (gdal.h).
GDALDataType ==
    { "GDT_Unknown", "GDT_Byte", "GDT_UInt16", "GDT_Int16", "GDT_UInt32",
      "GDT_Int32", "GDT_Float32", "GDT_Float64", "GDT_CInt16", "GDT_CInt32",
      "GDT_CFloat32", "GDT_CFloat64" }

\* Type descriptors.  sgn is T(-1) < T(0) of an arithmetic type; under_sgn
\* is that of the underlying type of an enumeration (whose size is the
\* enumeration's size).
IntegralType(sz, sg) ==
    [kind |-> "integral", size |-> sz, sgn |-> sg, under_sgn |-> FALSE]

FloatType(sz) ==
    [kind |-> "float", size |-> sz, sgn |-> TRUE, under_sgn |-> FALSE]

EnumType(sz, usg) ==
    [kind |-> "enum", size |-> sz, sgn |-> FALSE, under_sgn |-> usg]

OtherType(sz) ==
    [kind |-> "other", size |-> sz, sgn |-> FALSE, under_sgn |-> FALSE]

Types ==
    { IntegralType(sz, sg) : sz \in IntegralSizes, sg \in BOOLEAN }
    \cup { FloatType(sz) : sz \in FloatSizes }
    \cup { EnumType(sz, usg) : sz \in IntegralSizes, usg \in BOOLEAN }
    \cup { OtherType(sz) : sz \in OtherSizes }

\* The types the header's tests and comments name.
int8_t == IntegralType(1, TRUE)
int16_t == IntegralType(2, TRUE)
int32_t == IntegralType(4, TRUE)
uint8_t == IntegralType(1, FALSE)
uint16_t == IntegralType(2, FALSE)
uint32_t == IntegralType(4, FALSE)
float_t == FloatType(4)
double_t == FloatType(8)
void_ptr == OtherType(8)
bool == IntegralType(1, FALSE)
EnumInt8 == EnumType(1, TRUE)
EnumUInt32 == EnumType(4, FALSE)

\* <type_traits>
is_integral(T) == T.kind = "integral"

is_floating_point(T) == T.kind = "float"

is_enum(T) == T.kind = "enum"

is_signed(T) == T.kind \in {"integral", "float"} /\ T.sgn

sizeof(T) == T.size

underlying_type(T) == IntegralType(T.size, T.under_sgn)

\* FloatToGDAL with the two specialisations' values exchanged.
FloatToGDAL_Exchanged(FloatSize) ==
    CASE FloatSize = 4 -> "GDT_Float64"
      [] FloatSize = 8 -> "GDT_Float32"
      [] OTHER -> "GDT_Unknown"

\* template<size_t FloatSize> struct FloatToGDAL
FloatToGDAL(FloatSize) ==
    CASE FloatSize = 4 -> "GDT_Float32"
      [] FloatSize = 8 -> "GDT_Float64"
      [] OTHER -> "GDT_Unknown"

\* IntegralToGDAL with the values of <4, false> and <4, true> exchanged.
IntegralToGDAL_SignExchanged(IntegralSize, IsSigned) ==
    CASE IntegralSize = 1 /\ ~IsSigned -> "GDT_Byte"
      [] IntegralSize = 1 /\ IsSigned -> "GDT_Byte"
      [] IntegralSize = 2 /\ ~IsSigned -> "GDT_UInt16"
      [] IntegralSize = 2 /\ IsSigned -> "GDT_Int16"
      [] IntegralSize = 4 /\ ~IsSigned -> "GDT_Int32"
      [] IntegralSize = 4 /\ IsSigned -> "GDT_UInt32"
      [] OTHER -> "GDT_Unknown"

\* IntegralToGDAL without the specialisation <1, false>.
IntegralToGDAL_NoUnsignedByte(IntegralSize, IsSigned) ==
    CASE IntegralSize = 1 /\ IsSigned -> "GDT_Byte"
      [] IntegralSize = 2 /\ ~IsSigned -> "GDT_UInt16"
      [] IntegralSize = 2 /\ IsSigned -> "GDT_Int16"
      [] IntegralSize = 4 /\ ~IsSigned -> "GDT_UInt32"
      [] IntegralSize = 4 /\ IsSigned -> "GDT_Int32"
      [] OTHER -> "GDT_Unknown"

\* IntegralToGDAL whose primary template gives the widest integral code.
IntegralToGDAL_Widest(IntegralSize, IsSigned) ==
    CASE IntegralSize = 1 /\ ~IsSigned -> "GDT_Byte"
      [] IntegralSize = 1 /\ IsSigned -> "GDT_Byte"
      [] IntegralSize = 2 /\ ~IsSigned -> "GDT_UInt16"
      [] IntegralSize = 2 /\ IsSigned -> "GDT_Int16"
      [] IntegralSize = 4 /\ ~IsSigned -> "GDT_UInt32"
      [] IntegralSize = 4 /\ IsSigned -> "GDT_Int32"
      [] OTHER -> IF IsSigned THEN "GDT_Int32" ELSE "GDT_UInt32"

\* IntegralToGDAL with the value of <2, true> repeated in <2, false>.
IntegralToGDAL_Repeated(IntegralSize, IsSigned) ==
    CASE IntegralSize = 1 /\ ~IsSigned -> "GDT_Byte"
      [] IntegralSize = 1 /\ IsSigned -> "GDT_Byte"
      [] IntegralSize = 2 /\ ~IsSigned -> "GDT_Int16"
      [] IntegralSize = 2 /\ IsSigned -> "GDT_Int16"
      [] IntegralSize = 4 /\ ~IsSigned -> "GDT_UInt32"
      [] IntegralSize = 4 /\ IsSigned -> "GDT_Int32"
      [] OTHER -> "GDT_Unknown"

\* template<size_t IntegralSize, bool IsSigned> struct IntegralToGDAL
IntegralToGDAL(IntegralSize, IsSigned) ==
    CASE IntegralSize = 1 /\ ~IsSigned -> "GDT_Byte"
      [] IntegralSize = 1 /\ IsSigned -> "GDT_Byte"
      [] IntegralSize = 2 /\ ~IsSigned -> "GDT_UInt16"
      [] IntegralSize = 2 /\ IsSigned -> "GDT_Int16"
      [] IntegralSize = 4 /\ ~IsSigned -> "GDT_UInt32"
      [] IntegralSize = 4 /\ IsSigned -> "GDT_Int32"
      [] OTHER -> "GDT_Unknown"

\* struct BuiltInToGDAL<true, false, false, T>
BuiltInToGDAL_Integral(T) == IntegralToGDAL(sizeof(T), is_signed(T))

\* struct BuiltInToGDAL<false, true, false, T>
BuiltInToGDAL_Float(T) == FloatToGDAL(sizeof(T))

\* The enumeration specialisation passing T itself, not UnderlyingType.
BuiltInToGDAL_Enum_OfT(T) == BuiltInToGDAL_Integral(T)

\* struct BuiltInToGDAL<false, false, true, T>
BuiltInToGDAL_Enum(T) == BuiltInToGDAL_Integral(underlying_type(T))

\* The primary template of BuiltInToGDAL.
BuiltInToGDAL_Primary == "GDT_Unknown"

\* BuiltInToGDAL whose primary template goes by size as for an integral.
BuiltInToGDAL_PrimaryBySize(IsIntegral, IsFloat, IsEnum, T) ==
    CASE IsIntegral /\ ~IsFloat /\ ~IsEnum -> BuiltInToGDAL_Integral(T)
      [] ~IsIntegral /\ IsFloat /\ ~IsEnum -> BuiltInToGDAL_Float(T)
      [] ~IsIntegral /\ ~IsFloat /\ IsEnum -> BuiltInToGDAL_Enum(T)
      [] OTHER -> BuiltInToGDAL_Integral(T)

\* BuiltInToGDAL whose integral specialisation does not fix IsEnum.
BuiltInToGDAL_EnumFlagFree(IsIntegral, IsFloat, IsEnum, T) ==
    CASE IsIntegral /\ ~IsFloat -> BuiltInToGDAL_Integral(T)
      [] ~IsIntegral /\ IsFloat /\ ~IsEnum -> BuiltInToGDAL_Float(T)
      [] ~IsIntegral /\ ~IsFloat /\ IsEnum -> BuiltInToGDAL_Enum(T)
      [] OTHER -> BuiltInToGDAL_Primary

\* Partial-specialisation matching of BuiltInToGDAL<IsIntegral, IsFloat, IsEnum, T>.
BuiltInToGDAL(IsIntegral, IsFloat, IsEnum, T) ==
    CASE IsIntegral /\ ~IsFloat /\ ~IsEnum -> BuiltInToGDAL_Integral(T)
      [] ~IsIntegral /\ IsFloat /\ ~IsEnum -> BuiltInToGDAL_Float(T)
      [] ~IsIntegral /\ ~IsFloat /\ IsEnum -> BuiltInToGDAL_Enum(T)
      [] OTHER -> BuiltInToGDAL_Primary

\* Whether BuiltInToGDAL<IsIntegral, IsFloat, IsEnum, T> compiles: the
\* enumeration specialisation names std::underlying_type<T>::type and
\* static_asserts that it is integral, so it needs T to be an enumeration.
BuiltInToGDAL_WellFormed(IsIntegral, IsFloat, IsEnum, T) ==
    (~IsIntegral /\ ~IsFloat /\ IsEnum)
        => (is_enum(T) /\ is_integral(underlying_type(T)))

\* The flags internal::Convert<T> passes to BuiltInToGDAL.
TraitFlags(T) == <<is_integral(T), is_floating_point(T), is_enum(T)>>

\* internal::Convert<T>::value
internal_Convert(T) ==
    BuiltInToGDAL(TraitFlags(T)[1], TraitFlags(T)[2], TraitFlags(T)[3], T)

\* gdaltypetraits::Convert<T>::value
Convert_value(T) == internal_Convert(T)

\* is_recognized with the comparison inverted.
Convert_is_recognized_Inverted(T) == Convert_value(T) = "GDT_Unknown"

\* gdaltypetraits::Convert<T>::is_recognized
Convert_is_recognized(T) == Convert_value(T) # "GDT_Unknown"

VARIABLES
    T,              \* the template argument
    inst,           \* which template has been instantiated with T
    flags,          \* <<IsIntegral, IsFloat, IsEnum>> of the instantiation
    well_formed,    \* the instantiation compiles
    value,          \* the member value, "none" when there is none
    is_recognized   \* the member is_recognized (Convert only)

vars == <<T, inst, flags, well_formed, value, is_recognized>>

TypeOK ==
    /\ T \in Types
    /\ inst \in {"none", "Convert", "BuiltInToGDAL"}
    /\ flags \in BOOLEAN \X BOOLEAN \X BOOLEAN
    /\ well_formed \in BOOLEAN
    /\ value \in GDALDataType \cup {"none"}
    /\ is_recognized \in BOOLEAN

Init ==
    /\ T \in Types
    /\ inst = "none"
    /\ flags = <<FALSE, FALSE, FALSE>>
    /\ well_formed = TRUE
    /\ value = "none"
    /\ is_recognized = FALSE

\* A use of gdaltypetraits::Convert<T>.
InstantiateConvert ==
    /\ inst = "none"
    /\ inst' = "Convert"
    /\ flags' = TraitFlags(T)
    /\ well_formed' =
         BuiltInToGDAL_WellFormed(TraitFlags(T)[1], TraitFlags(T)[2],
                                  TraitFlags(T)[3], T)
    /\ value' = Convert_value(T)
    /\ is_recognized' = Convert_is_recognized(T)
    /\ UNCHANGED T

\* A use of internal::BuiltInToGDAL<IsIntegral, IsFloat, IsEnum, T> with
\* explicit flags.
InstantiateBuiltInToGDAL ==
    /\ inst = "none"
    /\ \E IsIntegral \in BOOLEAN, IsFloat \in BOOLEAN, IsEnum \in BOOLEAN :
         /\ inst' = "BuiltInToGDAL"
         /\ flags' = <<IsIntegral, IsFloat, IsEnum>>
         /\ well_formed' = BuiltInToGDAL_WellFormed(IsIntegral, IsFloat, IsEnum, T)
         /\ value' = IF BuiltInToGDAL_WellFormed(IsIntegral, IsFloat, IsEnum, T)
                        THEN BuiltInToGDAL(IsIntegral, IsFloat, IsEnum, T)
                        ELSE "none"
    /\ UNCHANGED <<T, is_recognized>>

Next == InstantiateConvert \/ InstantiateBuiltInToGDAL

Spec == Init /\ [][Next]_vars

(***************************************************************************)
(* Properties                                                              *)
(***************************************************************************)

\* C1: for an integral T, Convert<T>::value follows (sizeof, signedness):
\* 1 signed -> Byte, 1 unsigned -> Byte, 2 signed -> Int16, 2 unsigned ->
\* UInt16, 4 signed -> Int32, 4 unsigned -> UInt32; so int8_t, int16_t,
\* int32_t, uint8_t, uint16_t, uint32_t give Byte, Int16, Int32, Byte,
\* UInt16, UInt32.
C1_IntegralTable ==
    (inst = "Convert" /\ T.kind = "integral") =>
        /\ (T.size = 1 /\ T.sgn) => value = "GDT_Byte"
        /\ (T.size = 1 /\ ~T.sgn) => value = "GDT_Byte"
        /\ (T.size = 2 /\ T.sgn) => value = "GDT_Int16"
        /\ (T.size = 2 /\ ~T.sgn) => value = "GDT_UInt16"
        /\ (T.size = 4 /\ T.sgn) => value = "GDT_Int32"
        /\ (T.size = 4 /\ ~T.sgn) => value = "GDT_UInt32"
        /\ T = int8_t => value = "GDT_Byte"
        /\ T = int16_t => value = "GDT_Int16"
        /\ T = int32_t => value = "GDT_Int32"
        /\ T = uint8_t => value = "GDT_Byte"
        /\ T = uint16_t => value = "GDT_UInt16"
        /\ T = uint32_t => value = "GDT_UInt32"

C1_Witness ==
    inst = "Convert" /\ T = uint32_t /\ value = "GDT_UInt32"

\* C2: for a floating-point T, Convert<T>::value is Float32 at size 4 and
\* Float64 at size 8; the float specialisation looks at the size alone, so
\* it gives the same for a T whose is_signed is false.
C2_FloatTable ==
    /\ (inst = "Convert" /\ T.kind = "float") =>
        /\ T.size = 4 => value = "GDT_Float32"
        /\ T.size = 8 => value = "GDT_Float64"
        /\ T = float_t => value = "GDT_Float32"
        /\ T = double_t => value = "GDT_Float64"
    /\ (inst = "BuiltInToGDAL" /\ flags = <<FALSE, TRUE, FALSE>>) =>
        /\ T.size = 4 => value = "GDT_Float32"
        /\ T.size = 8 => value = "GDT_Float64"

C2_Witness ==
    inst = "Convert" /\ T = double_t /\ value = "GDT_Float64"

\* C3: for a T that is neither integral, floating-point nor an enumeration,
\* Convert<T> compiles and its value is GDT_Unknown at every size.
C3_OtherIsUnknown ==
    (inst = "Convert" /\ T.kind = "other") =>
        (well_formed /\ value = "GDT_Unknown")

C3_Witness ==
    /\ inst = "Convert" /\ T.kind = "other" /\ T.size = 4
    /\ well_formed /\ value = "GDT_Unknown"

\* C4: Convert<T>::is_recognized is true exactly when Convert<T>::value is
\* not GDT_Unknown; it is false for void* and true for int8_t.
C4_RecognizedIffKnown ==
    inst = "Convert" =>
        /\ is_recognized <=> (value # "GDT_Unknown")
        /\ T = void_ptr => ~is_recognized
        /\ T = int8_t => is_recognized

C4_Witness ==
    inst = "Convert" /\ T = int8_t /\ is_recognized /\ value = "GDT_Byte"

\* C5: for an enumeration E, Convert<E>::value is Convert<U>::value of its
\* underlying type U: an enum over int8_t gives Byte, one over uint32_t
\* gives UInt32, and one whose U has a size other than 1, 2, 4 gives Unknown.
C5_EnumAsUnderlying ==
    (inst = "Convert" /\ T.kind = "enum") =>
        /\ value = Convert_value(underlying_type(T))
        /\ T = EnumInt8 => value = "GDT_Byte"
        /\ T = EnumUInt32 => value = "GDT_UInt32"
        /\ (T.size = 2 /\ T.under_sgn) => value = "GDT_Int16"
        /\ T.size \notin {1, 2, 4} => value = "GDT_Unknown"

C5_Witness ==
    /\ inst = "Convert" /\ T.kind = "enum" /\ T.size = 2 /\ T.under_sgn
    /\ value = "GDT_Int16"

\* C6: bool, an unsigned integral type of size 1, is recognized and
\* Convert<bool>::value is GDT_Byte.
C6_Bool ==
    (inst = "Convert" /\ T = bool) => (is_recognized /\ value = "GDT_Byte")

C6_Witness ==
    /\ inst = "Convert" /\ T = bool /\ ~is_signed(T) /\ sizeof(T) = 1
    /\ is_recognized /\ value = "GDT_Byte"

\* C8: an integral T whose size is not 1, 2 or 4 and a floating-point T
\* whose size is not 4 or 8 give GDT_Unknown and is_recognized false.
C8_UnsupportedWidth ==
    inst = "Convert" =>
        /\ (T.kind = "integral" /\ T.size \notin {1, 2, 4}) =>
              (value = "GDT_Unknown" /\ ~is_recognized)
        /\ (T.kind = "float" /\ T.size \notin {4, 8}) =>
              (value = "GDT_Unknown" /\ ~is_recognized)

C8_Witness ==
    /\ inst = "Convert" /\ T = IntegralType(8, TRUE)
    /\ value = "GDT_Unknown" /\ ~is_recognized

\* Number of flags of the instantiation that are true.
FlagCount ==
    (IF flags[1] THEN 1 ELSE 0) + (IF flags[2] THEN 1 ELSE 0)
        + (IF flags[3] THEN 1 ELSE 0)

ProducedCodes ==
    { "GDT_Unknown", "GDT_Byte", "GDT_UInt16", "GDT_Int16", "GDT_UInt32",
      "GDT_Int32", "GDT_Float32", "GDT_Float64" }

\* The integral type of T's size and the other signedness.
OtherSign(t) == IntegralType(t.size, ~t.sgn)

\* C10 as stated: Convert<T>::value is one of the eight codes, and among
\* integral types size 1 is the only size whose signed and unsigned types
\* get the same code (sizes 2 and 4 get distinct codes).
C10_AsStated ==
    inst = "Convert" =>
        /\ value \in ProducedCodes
        /\ T.kind = "integral" =>
              /\ (value = Convert_value(OtherSign(T))) <=> (T.size = 1)
              /\ T.size = 1 => value = "GDT_Byte"

\* C10: Convert<T>::value is one of the eight codes, and among the integral
\* sizes 1, 2 and 4 size 1 is the only one whose signed and unsigned types
\* get the same code (GDT_Byte); at every other size both get GDT_Unknown.
C10_CodesAndSigns ==
    inst = "Convert" =>
        /\ value \in ProducedCodes
        /\ value \notin {"GDT_CInt16", "GDT_CInt32", "GDT_CFloat32", "GDT_CFloat64"}
        /\ T.kind = "integral" =>
              /\ T.size = 1 =>
                    (value = "GDT_Byte" /\ Convert_value(OtherSign(T)) = "GDT_Byte")
              /\ T.size \in {2, 4} => value # Convert_value(OtherSign(T))
              /\ T.size \notin {1, 2, 4} =>
                    (value = "GDT_Unknown"
                        /\ Convert_value(OtherSign(T)) = "GDT_Unknown")

C10_Witness ==
    /\ inst = "Convert" /\ T = int16_t /\ value = "GDT_Int16"
    /\ Convert_value(OtherSign(T)) = "GDT_UInt16"

====
